---- MODULE Spec2Model ----
(***************************************************************************)
(* Model of the Done to-do backend: the Lambda authorizer behind the API   *)
(* Gateway RequestAuthorizer, the single-table repository handlers, the    *)
(* account cascade delete and the sort-key encoding/splitting.             *)
(*                                                                         *)
(* Nine specifications share this module:                                  *)
(*   SpecAuth   - gateway + lambdaAuthorizer.handler + key set rotation    *)
(*   SpecKey    - sort keys built by the write paths, split by initializeUser *)
(*   Spec       - the repository handlers over the table                   *)
(*   SpecDelete - deleteAccount.handler, page by page                      *)
(*   SpecRace   - initializeUser step by step, against updateUserSettings  *)
(*   SpecConc   - updateUserTask and updateUserSettings, concurrent        *)
(*   SpecBatch  - deleteAccount.handler, one step per store request        *)
(*   SpecBatchLive - SpecBatch with the store answering every request      *)
(*   SpecTenants - the repository handlers and deleteAccount as one step   *)
(***************************************************************************)
EXTENDS Integers, Sequences, FiniteSets, TLC

VARIABLES
    \* ---- authorization (SpecAuth) ----
    jwks,          \* the key set the JWKS endpoint serves now (sequence of key ids)
    authCache,     \* gateway authorizer result cache: Authorization header -> policy effect
    authEvent,     \* the last request: [Authorization, XUserId]
    authOutcome,   \* what lambdaAuthorizer.handler did for it
    authKeys,      \* the key set verifyAccessToken fetched in that run
    authDecoded,   \* what verifyAccessToken returned in that run
    gwResult,      \* what the gateway did with the request
    \* ---- sort keys (SpecKey) ----
    keyItem,       \* the last key a write path built: [kind, ids, sk]
    keyRead,       \* what the read path's splitting made of it: [done, kind, ids]
    \* ---- repository handlers (Spec) ----
    table,         \* the DynamoDB table: key <<pk, sk>> -> item attributes
    now,           \* the server clock, epoch milliseconds
    nextId,        \* how many identifiers uuidv4() has handed out, plus one
    reqNo,         \* number of handler invocations so far
    req,           \* the last invocation: its event and what the store did
    resp,          \* the response it returned
    storeCalls,    \* docClient calls the last invocation issued
    \* ---- deleteAccount, page by page (SpecDelete) ----
    delPc,         \* where the running deleteAccount invocation is
    delLastKey,    \* lastEvaluatedKey: sort position of the continuation token, 0 = undefined
    delPage,       \* queryResult.Items of the page in hand, in sort-key order
    delNextKey,    \* queryResult.LastEvaluatedKey of that page, 0 = undefined
    delScanned,    \* every key a page of this run has returned
    delRounds,     \* rounds of concurrent batch writes this run has awaited
    delStart,      \* the partition as it was when this run started
    delPrior,      \* <<user, status>> of every earlier run
    \* ---- initializeUser, one step per await (SpecRace) ----
    inv,           \* per concurrent invocation: position, user, currentTime, response
    \* ---- update handlers, one step per await (SpecConc) ----
    upd,           \* the table before the updates, and per invocation: position, request, response
    \* ---- deleteAccount, one step per store request (SpecBatch) ----
    bat            \* the running invocation: position, page in hand, batch writes in flight

authVars == <<jwks, authCache, authEvent, authOutcome, authKeys, authDecoded, gwResult>>
keyVars == <<keyItem, keyRead>>
storeVars == <<table, now, nextId, reqNo, req, resp, storeCalls>>
delVars == <<delPc, delLastKey, delPage, delNextKey, delScanned, delRounds, delStart, delPrior>>

vars == <<authVars, keyVars, storeVars, delVars, inv, upd, bat>>

\* The variables each specification leaves alone.
notAuth == <<keyVars, storeVars, delVars, inv, upd, bat>>
notKey == <<authVars, storeVars, delVars, inv, upd, bat>>
notStore == <<authVars, keyVars, delVars, inv, upd, bat>>
notDelete == <<authVars, keyVars, now, nextId, inv, upd, bat>>
notRace == <<authVars, keyVars, delVars, nextId, reqNo, req, resp, storeCalls, upd, bat>>
notConc == <<authVars, keyVars, delVars, nextId, reqNo, req, resp, storeCalls, inv, bat>>
notBatch == <<authVars, keyVars, delVars, now, nextId, reqNo, req, resp, storeCalls, inv, upd>>

(***************************************************************************)
(* Bounds                                                                  *)
(***************************************************************************)
MaxCache == 1      \* authorizer results the gateway cache holds at once
MaxTime == 2       \* last clock reading
MaxIds == 3        \* identifiers uuidv4() hands out
MaxReq == 2        \* handler invocations in one behaviour
MaxItems == 27     \* items in the largest partition deleteAccount is run on
MaxUnprocessed == 1  \* keys one page's batch deletes hand back unprocessed
MaxInvocations == 2  \* initializeUser invocations in flight at once

Users == {"u1", "u2"}

(***************************************************************************)
(* Token Verifier and Policy Decision: lambdaAuthorizer.ts                 *)
(***************************************************************************)
Keys == {"k1", "k2", "k3"}     \* key ids the identity provider may serve
Attacker == "attacker"         \* a signing key that is never in the key set
NoHeader == "<absent>"
Undefined == "<undefined>"

\* A bearer token: the key-id hint of its header, the key that really signed
\* it, its subject claim, and whether its exp claim lies in the past.
Tokens ==
    { t \in [kid : Keys, signer : Keys \cup {Attacker}, sub : Users, expired : BOOLEAN] :
        /\ t.signer \in Keys => t.kid = t.signer
        /\ t.sub = "u2" => t.signer = "k1"
        /\ t.signer = Attacker => (t.kid = "k1" /\ ~t.expired /\ t.sub = "u1")
        /\ t.expired => (t.signer = "k1" /\ t.sub = "u1") }

\* Authorization header values: absent, "Bearer <token>", or a bare word.
\* A header value is the sequence of its space-separated words; the absent
\* header is the empty sequence.
NoAuthHeader == << >>

AuthHeaders ==
    {NoAuthHeader} \cup { <<"Bearer", t>> : t \in Tokens } \cup { <<"Bearer">> }

\* X-User-Id header values: absent, or a user id.
UserIdHeaders == {NoHeader} \cup Users

Falsy(h) == h = NoHeader \/ h = ""

defaultDenyAllPolicy == [principalId |-> "user", Effect |-> "Deny", Resource |-> "*"]

generatePolicyStatement(apiArn, action) ==
    [Action |-> "execute-api:Invoke", Effect |-> action, Resource |-> apiArn]

generatePolicy(principalId, policyStatement) ==
    [principalId |-> principalId, Effect |-> policyStatement.Effect,
     Resource |-> policyStatement.Resource]

generateIAMPolicy == generatePolicy("user", generatePolicyStatement("api/*", "Allow"))

\* jwt.verify(accessToken, signingKey): the signature must be the one made
\* with signingKey and the token must not be expired.  accessToken is the
\* sequence of zero (undefined) or one token.
jwtVerify(accessToken, signingKey) ==
    /\ Len(accessToken) = 1
    /\ accessToken[1].signer = signingKey
    /\ ~accessToken[1].expired

\* The key verifyAccessToken takes from the fetched key set: key[0].
SigningKey(keys) == keys[1]

\* verifyAccessToken: fetch the key set, take key[0], verify.  A thrown
\* error (empty key set, bad signature, expired) is ok = FALSE.
verifyAccessToken(accessToken, keys) ==
    IF Len(keys) = 0 THEN [ok |-> FALSE, sub |-> Undefined]
    ELSE IF jwtVerify(accessToken, SigningKey(keys))
         THEN [ok |-> TRUE, sub |-> accessToken[1].sub]
         ELSE [ok |-> FALSE, sub |-> Undefined]

\* event.headers.Authorization.split(" ")[1]
BearerToken(authorization) ==
    IF Len(authorization) >= 2 THEN <<authorization[2]>> ELSE << >>

NotVerified == [ok |-> FALSE, sub |-> Undefined]

\* The comparison of lines 101-108, without the subject check.
DecideAnySubject(userId, decoded) ==
    IF decoded.ok THEN "Allow" ELSE "Deny"

\* Lines 97-113: Allow when the token verified and its subject is the
\* X-User-Id value, the default deny policy otherwise.
Decide(userId, decoded) ==
    IF decoded.ok /\ userId = decoded.sub THEN "Allow" ELSE "Deny"

\* lambdaAuthorizer.handler.  outcome: "Unauthorized" is the thrown error,
\* "Allow" is generateIAMPolicy(), "Deny" is defaultDenyAllPolicy.
AuthorizerHandler(event, keys) ==
    IF event.Authorization = NoAuthHeader \/ Falsy(event.XUserId)
    THEN [outcome |-> "Unauthorized", keys |-> << >>, decoded |-> NotVerified]
    ELSE LET token   == BearerToken(event.Authorization)
             decoded == verifyAccessToken(token, keys)
             effect  == Decide(event.XUserId, decoded)
         IN [outcome |-> IF effect = "Allow" THEN generateIAMPolicy.Effect
                                             ELSE defaultDenyAllPolicy.Effect,
             keys    |-> keys,
             decoded |-> decoded]

Events == [Authorization : AuthHeaders, XUserId : UserIdHeaders]

AuthIdle ==
    /\ jwks = <<"k1", "k2">>
    /\ authCache = << >>
    /\ authEvent = [Authorization |-> NoAuthHeader, XUserId |-> NoHeader]
    /\ authOutcome = "None"
    /\ authKeys = << >>
    /\ authDecoded = NotVerified
    /\ gwResult = "None"

\* The identity provider rotates its keys: a new key is added at the head or
\* the tail of the served set.
RotateAdd ==
    \E k \in Keys, front \in BOOLEAN :
        /\ \A i \in 1..Len(jwks) : jwks[i] # k
        /\ jwks' = IF front THEN <<k>> \o jwks ELSE Append(jwks, k)
        /\ UNCHANGED <<authCache, authEvent, authOutcome, authKeys, authDecoded, gwResult, notAuth>>

\* ... and an old key is retired.
RotateRetire ==
    \E i \in 1..Len(jwks) :
        /\ Len(jwks) > 1
        /\ jwks' = SubSeq(jwks, 1, i - 1) \o SubSeq(jwks, i + 1, Len(jwks))
        /\ UNCHANGED <<authCache, authEvent, authOutcome, authKeys, authDecoded, gwResult, notAuth>>

CacheDom == DOMAIN authCache

\* A request to a protected route.  RequestAuthorizer with identitySources
\* [Authorization] and the default result cache: a request without the
\* identity source is answered 401 without calling the Lambda; a cached
\* result for the same Authorization value is reused; otherwise the Lambda
\* runs and a returned policy is cached under the Authorization value.
GatewayRequest ==
    \E ev \in Events :
        /\ authEvent' = ev
        /\ UNCHANGED <<jwks, notAuth>>
        /\ IF ev.Authorization = NoAuthHeader
           THEN /\ gwResult' = "401"
                /\ authOutcome' = "NotInvoked"
                /\ authKeys' = << >>
                /\ authDecoded' = NotVerified
                /\ UNCHANGED authCache
           ELSE IF ev.Authorization \in CacheDom
           THEN /\ authOutcome' = "Cached"
                /\ authKeys' = << >>
                /\ authDecoded' = NotVerified
                /\ gwResult' = IF authCache[ev.Authorization] = "Allow"
                               THEN "HandlerInvoked" ELSE "403"
                /\ UNCHANGED authCache
           ELSE /\ Cardinality(CacheDom) < MaxCache
                /\ LET run == AuthorizerHandler(ev, jwks)
                       out == run.outcome
                   IN /\ authOutcome' = out
                      /\ authKeys' = run.keys
                      /\ authDecoded' = run.decoded
                      /\ gwResult' = CASE out = "Allow" -> "HandlerInvoked"
                                       [] out = "Deny" -> "403"
                                       [] OTHER -> "401"
                      /\ authCache' =
                            IF out = "Unauthorized" THEN authCache
                            ELSE [h \in CacheDom \cup {ev.Authorization} |->
                                    IF h = ev.Authorization THEN out ELSE authCache[h]]

\* The Lambda invoked on its own with an arbitrary event (console test,
\* gateway with caching off): no gateway decision is involved.
AuthorizerInvoke ==
    \E ev \in Events :
        LET run == AuthorizerHandler(ev, jwks)
        IN /\ authEvent' = ev
           /\ authOutcome' = run.outcome
           /\ authKeys' = run.keys
           /\ authDecoded' = run.decoded
           /\ gwResult' = "Direct"
           /\ UNCHANGED <<jwks, authCache, notAuth>>

\* A cached authorizer result reaches its TTL.
CacheExpire ==
    \E h \in CacheDom :
        /\ authCache' = [x \in CacheDom \ {h} |-> authCache[x]]
        /\ UNCHANGED <<jwks, authEvent, authOutcome, authKeys, authDecoded, gwResult, notAuth>>

NextAuth ==
    \/ RotateAdd
    \/ RotateRetire
    \/ GatewayRequest
    \/ AuthorizerInvoke
    \/ CacheExpire

(***************************************************************************)
(* Key Codec: sort keys as the write paths concatenate them and as         *)
(* initializeUser and createUserTask split them.  A string is the sequence *)
(* of its characters.                                                      *)
(***************************************************************************)
CATEGORY_TAG == <<"C","A","T","E","G","O","R","Y","#">>
TASK_TAG == <<"T","A","S","K","#">>
NOTIFICATION_TAG == <<"N","O","T","I","F","I","C","A","T","I","O","N","#">>
UndefinedStr == <<"<undefined>">>

\* Identifiers uuidv4() returns: hex digits and dashes.
UuidStrs == { <<"a","1">>, <<"b","-","2">>, <<"c">>, <<"0","f">>, <<"d","-","e">> }

\* Values the taskId query parameter can carry: any non-empty string.
QueryStrs ==
    UuidStrs \cup
    { <<"x","#","y">>,
      <<"a">> \o NOTIFICATION_TAG \o <<"b">>,
      TASK_TAG \o <<"a">>,
      <<"a">> \o TASK_TAG }

\* s.startsWith(t) / begins_with(sk, t)
StartsWith(s, t) == Len(s) >= Len(t) /\ SubSeq(s, 1, Len(t)) = t

\* s.indexOf(sep), 1-based; 0 when sep does not occur.
IndexOf(s, sep) ==
    LET hits == { i \in 1..(Len(s) - Len(sep) + 1) : SubSeq(s, i, i + Len(sep) - 1) = sep }
    IN IF hits = {} THEN 0 ELSE CHOOSE i \in hits : \A j \in hits : i <= j

\* s.includes(sep)
Includes(s, sep) == IndexOf(s, sep) # 0

\* s.split(sep): the pieces between the occurrences of sep.
RECURSIVE Split(_, _)
Split(s, sep) ==
    LET i == IndexOf(s, sep)
    IN IF i = 0 THEN <<s>>
       ELSE <<SubSeq(s, 1, i - 1)>> \o Split(SubSeq(s, i + Len(sep), Len(s)), sep)

\* parts[n] of a JavaScript array (0-based n), undefined past its end.
At(parts, n) == IF n + 1 <= Len(parts) THEN parts[n + 1] ELSE UndefinedStr

\* Write paths.
CategorySk(categoryId) == CATEGORY_TAG \o categoryId
TaskSk(taskId) == TASK_TAG \o taskId
NotificationSk(taskId, notificationId) ==
    TASK_TAG \o taskId \o NOTIFICATION_TAG \o notificationId

\* Read path of initializeUser: an item of the CATEGORY# query is a
\* category; an item of the TASK# query is a notification when its sort key
\* includes "NOTIFICATION#" and a task otherwise.
ReadKind(sk) ==
    IF StartsWith(sk, CATEGORY_TAG) THEN "category"
    ELSE IF StartsWith(sk, TASK_TAG)
         THEN IF Includes(sk, NOTIFICATION_TAG) THEN "notification" ELSE "task"
         ELSE "none"

ReadCategoryId(sk) == At(Split(sk, CATEGORY_TAG), 1)
ReadTaskId(sk) == At(Split(sk, TASK_TAG), 1)
ReadNotificationId(sk) == At(Split(sk, NOTIFICATION_TAG), 1)
ReadNotificationTaskId(sk) == At(Split(At(Split(sk, TASK_TAG), 1), NOTIFICATION_TAG), 0)

ReadIds(sk) ==
    CASE ReadKind(sk) = "category" -> <<ReadCategoryId(sk)>>
      [] ReadKind(sk) = "task" -> <<ReadTaskId(sk)>>
      [] ReadKind(sk) = "notification" -> <<ReadNotificationTaskId(sk), ReadNotificationId(sk)>>
      [] OTHER -> << >>

NothingRead == [done |-> FALSE, kind |-> "none", ids |-> << >>]

KeyIdle ==
    /\ keyItem = [kind |-> "none", by |-> "none", ids |-> << >>, sk |-> << >>]
    /\ keyRead = NothingRead

\* createUserCategory builds CATEGORY#<uuid>.
CreateUserCategoryKey ==
    \E categoryId \in UuidStrs :
        /\ keyItem' = [kind |-> "category", by |-> "createUserCategory",
                       ids |-> <<categoryId>>, sk |-> CategorySk(categoryId)]
        /\ keyRead' = NothingRead
        /\ UNCHANGED notKey

\* createUserTask builds TASK#<uuid>.
CreateUserTaskKey ==
    \E taskId \in UuidStrs :
        /\ keyItem' = [kind |-> "task", by |-> "createUserTask",
                       ids |-> <<taskId>>, sk |-> TaskSk(taskId)]
        /\ keyRead' = NothingRead
        /\ UNCHANGED notKey

\* createUserTask builds TASK#<uuid>NOTIFICATION#<uuid> for a selected
\* default and splits it again for its response (cleanedNotifications).
CreateUserTaskNotificationKey ==
    \E taskId \in UuidStrs, notificationId \in UuidStrs :
        LET sk == NotificationSk(taskId, notificationId)
        IN /\ keyItem' = [kind |-> "notification", by |-> "createUserTask",
                          ids |-> <<taskId, notificationId>>, sk |-> sk]
           /\ keyRead' = [done |-> TRUE, kind |-> "notification",
                          ids |-> <<taskId, ReadNotificationId(sk)>>]
           /\ UNCHANGED notKey

\* createTaskNotification builds TASK#<taskId query parameter>NOTIFICATION#<uuid>.
CreateTaskNotificationKey ==
    \E taskId \in QueryStrs, notificationId \in UuidStrs :
        /\ keyItem' = [kind |-> "notification", by |-> "createTaskNotification",
                       ids |-> <<taskId, notificationId>>,
                       sk |-> NotificationSk(taskId, notificationId)]
        /\ keyRead' = NothingRead
        /\ UNCHANGED notKey

\* initializeUser reads the item back and splits its sort key.
InitializeUserSplit ==
    /\ keyItem.kind # "none"
    /\ keyRead' = [done |-> TRUE, kind |-> ReadKind(keyItem.sk), ids |-> ReadIds(keyItem.sk)]
    /\ UNCHANGED <<keyItem, notKey>>

NextKey ==
    \/ CreateUserCategoryKey
    \/ CreateUserTaskKey
    \/ CreateUserTaskNotificationKey
    \/ CreateTaskNotificationKey
    \/ InitializeUserSplit

\* C8: splitting a sort key a write path built gives back the kind and the
\* identifiers it was built from, the taskId query parameter of
\* createTaskNotification included.
C8_KeyRoundTrip ==
    keyRead.done => (keyRead.kind = keyItem.kind /\ keyRead.ids = keyItem.ids)

(***************************************************************************)
(* The table and the DynamoDB document client calls the handlers make.     *)
(* A key is <<pk, sk>>; pk and sk are the sequences of the literal tags    *)
(* and identifiers the handlers concatenate.                               *)
(***************************************************************************)
IdPool == <<"i1", "i2", "i3", "i4", "i5", "i6", "i7", "i8">>

\* uuidv4(): the n-th identifier handed out; never the same twice.
uuidv4(n) == IdPool[n]

UserPk(userId) == <<"USER#", userId>>
SettingsKey(userId) == <<UserPk(userId), <<"SETTINGS#">> >>
TaskKey(userId, taskId) == <<UserPk(userId), <<"TASK#", taskId>> >>
NotificationKey(userId, taskId, notificationId) ==
    <<UserPk(userId), <<"TASK#", taskId, "NOTIFICATION#", notificationId>> >>
\* The key updateTaskNotification addresses.
UpdateNotificationKey(taskId, notificationId) ==
    << <<"TASK#", taskId>>, <<"NOTIFICATION#", notificationId>> >>

NoItem == << >>

\* docClient.get
DdbGet(tbl, key) == IF key \in DOMAIN tbl THEN tbl[key] ELSE NoItem

Exists(tbl, key) == key \in DOMAIN tbl

\* docClient.put: the item replaces whatever the key held.
DdbPut(tbl, key, item) ==
    [k \in DOMAIN tbl \cup {key} |-> IF k = key THEN item ELSE tbl[k]]

\* The update expression the three update handlers build:
\* "SET updatedAt = :updatedAt" plus "#key = :key" for every key of the
\* body; :updatedAt is Date.now() unless the body carries updatedAt.
UpdateParamsNoStamp(key, requestBody, t) ==
    [Key |-> key, plain |-> {}, names |-> DOMAIN requestBody,
     values |-> requestBody]

UpdateParams(key, requestBody, t) ==
    [Key    |-> key,
     plain  |-> {"updatedAt"},
     names  |-> DOMAIN requestBody,
     values |-> [a \in DOMAIN requestBody \cup {"updatedAt"} |->
                   IF a \in DOMAIN requestBody THEN requestBody[a] ELSE t]]

\* Requests DynamoDB rejects with a ValidationException: an empty
\* ExpressionAttributeNames map, two SET paths naming the same attribute,
\* a SET of a key attribute.
DdbUpdateRejects(params) ==
    \/ params.names = {}
    \/ params.plain \cap params.names # {}
    \/ params.names \cap {"pk", "sk"} # {}

DdbUpdateReplacing(tbl, params) ==
    LET targets == params.plain \cup params.names
    IN DdbPut(tbl, params.Key, [a \in targets |-> params.values[a]])

\* docClient.update with a SET expression and no ConditionExpression: the
\* attributes are set on the item, which is created when it does not exist.
DdbUpdate(tbl, params) ==
    LET old     == DdbGet(tbl, params.Key)
        targets == params.plain \cup params.names
        new     == [a \in DOMAIN old \cup targets |->
                      IF a \in targets THEN params.values[a] ELSE old[a]]
    IN DdbPut(tbl, params.Key, new)

(***************************************************************************)
(* Requests and responses                                                  *)
(***************************************************************************)
NoParam == ""
UnknownId == "zz"      \* a syntactically fine identifier no item carries

\* event.body: absent, text that is not JSON, or the text of an object.
NoBody == [text |-> "absent", obj |-> << >>]
BadJson == [text |-> "invalid", obj |-> << >>]
Json(obj) == [text |-> "json", obj |-> obj]

NoData == << >>

Response(statusCode, message) ==
    [statusCode |-> statusCode, threw |-> FALSE, message |-> message,
     task |-> << >>, notifications |-> {}, data |-> NoData]

\* The invocation ends with an exception no catch block handles.
Uncaught == [statusCode |-> 0, threw |-> TRUE, message |-> "uncaught exception",
             task |-> << >>, notifications |-> {}, data |-> NoData]

\* What a handler invocation leaves behind: the table, the response, the
\* number of identifiers it drew, the number of docClient calls it issued
\* (none unless Called says otherwise).
Outcome(tbl, response, drawn) ==
    [table |-> tbl, resp |-> response, drawn |-> drawn, calls |-> 0]

Called(outcome, n) == [outcome EXCEPT !.calls = n]

Has(obj, a) == a \in DOMAIN obj

\* The requestBody.x && {...} test on a string (taskNotes, categoryId):
\* present and not "".
TruthyStr(obj, a) == Has(obj, a) /\ obj[a] # ""

\* ... and on a number (taskDueDate): present and not 0.
TruthyNum(obj, a) == Has(obj, a) /\ obj[a] # 0

(***************************************************************************)
(* updateUserTask.handler (part_004)                                       *)
(***************************************************************************)
updateUserTask(tbl, userId, taskId, body, t, storeOk) ==
    IF Falsy(userId)
    THEN Outcome(tbl, Response(400, "User ID is missing in the request headers"), 0)
    ELSE IF body.text = "absent"
    THEN Outcome(tbl, Response(400, "Request body is missing"), 0)
    ELSE IF taskId = NoParam
    THEN Outcome(tbl, Response(400, "Task ID is missing in the request query string parameters"), 0)
    ELSE IF body.text = "invalid"
    THEN Outcome(tbl, Uncaught, 0)
    ELSE LET params == UpdateParams(TaskKey(userId, taskId), body.obj, t)
         IN IF ~storeOk \/ DdbUpdateRejects(params)
            THEN Called(Outcome(tbl, Response(500, "Error updating task"), 0), 1)
            ELSE Called(Outcome(DdbUpdate(tbl, params),
                                Response(200, "Task updated successfully"), 0), 1)

(***************************************************************************)
(* updateUserSettings.handler (part_007)                                   *)
(***************************************************************************)
updateUserSettings(tbl, userId, body, t, storeOk) ==
    IF Falsy(userId)
    THEN Outcome(tbl, Response(400, "User ID is missing in the request headers"), 0)
    ELSE IF body.text = "absent"
    THEN Outcome(tbl, Response(400, "Request body is missing"), 0)
    ELSE IF body.text = "invalid"
    THEN Outcome(tbl, Uncaught, 0)
    ELSE LET params == UpdateParams(SettingsKey(userId), body.obj, t)
         IN IF ~storeOk \/ DdbUpdateRejects(params)
            THEN Called(Outcome(tbl, Response(500, "Error updating user"), 0), 1)
            ELSE Called(Outcome(DdbUpdate(tbl, params),
                                Response(200, "User updated successfully"), 0), 1)

(***************************************************************************)
(* updateTaskNotification.handler                                          *)
(***************************************************************************)
updateTaskNotification(tbl, userId, taskId, notificationId, body, t, storeOk) ==
    IF Falsy(userId)
    THEN Outcome(tbl, Response(400, "User ID is missing in the request headers"), 0)
    ELSE IF body.text = "absent"
    THEN Outcome(tbl, Response(400, "Request body is missing"), 0)
    ELSE IF taskId = NoParam
    THEN Outcome(tbl, Response(400, "Task ID is missing in the request query string parameters"), 0)
    ELSE IF notificationId = NoParam
    THEN Outcome(tbl, Response(400, "Notification ID is missing in the request query string parameters"), 0)
    ELSE IF body.text = "invalid"
    THEN Outcome(tbl, Uncaught, 0)
    ELSE LET params == UpdateParams(UpdateNotificationKey(taskId, notificationId), body.obj, t)
         IN IF ~storeOk \/ DdbUpdateRejects(params)
            THEN Called(Outcome(tbl, Response(500, "Error updating task notification"), 0), 1)
            ELSE Called(Outcome(DdbUpdate(tbl, params),
                                Response(200, "Task notification updated successfully"), 0), 1)

(***************************************************************************)
(* initializeUser.handler (part_006)                                       *)
(***************************************************************************)
DefaultNotificationKeys == {"5", "15", "30", "45", "60"}

defaultUserSettings(currentTime) ==
    [twelveHour |-> TRUE, enableNotifications |-> TRUE, displayEmail |-> FALSE,
     defaultNotifications |-> [k \in DefaultNotificationKeys |-> k \in {"5", "15"}],
     sortMode |-> "category", createdAt |-> currentTime, updatedAt |-> currentTime]

\* The attributes of an item that a cleaned record copies; JSON.stringify
\* drops the ones the item does not have.
Pick(item, fields) == [a \in fields \cap DOMAIN item |-> item[a]]

\* Position of an identifier in string order.
Rank(id) == IF id = UnknownId THEN Len(IdPool) + 1
            ELSE CHOOSE i \in 1..Len(IdPool) : IdPool[i] = id

\* Position of a sort key among the sort keys with the same first tag:
\* TASK#a < TASK#aNOTIFICATION#n < TASK#b for a < b.
SkRank(sk) ==
    Rank(sk[2]) * (Len(IdPool) + 2) + (IF Len(sk) = 4 THEN Rank(sk[4]) ELSE 0)

\* pk = :pk AND begins_with(sk, :sk): the keys of the user's partition
\* whose sort key starts with the tag.
Matching(tbl, userId, tag) ==
    { k \in DOMAIN tbl : k[1] = UserPk(userId) /\ Len(k[2]) >= 2 /\ k[2][1] = tag }

\* docClient.query, one call: the first n matching keys in sort-key order.
\* The handler never looks at LastEvaluatedKey.
DdbQueryPage(tbl, userId, tag, n) ==
    LET all == Matching(tbl, userId, tag)
    IN { k \in all : Cardinality({ j \in all : SkRank(j[2]) < SkRank(k[2]) }) < n }

\* Page lengths the store may choose for a query matching r items.
FirstPageLengths(r) == IF r = 0 THEN {0} ELSE 1..r

cleanedUserSettingsNoCreatedAt(item) ==
    Pick(item, {"twelveHour", "enableNotifications", "displayEmail", "sortMode",
                "updatedAt"})
    @@ [defaultNotifications |-> Pick(item.defaultNotifications, DefaultNotificationKeys)]

cleanedUserSettings(item) ==
    Pick(item, {"twelveHour", "enableNotifications", "displayEmail", "sortMode",
                "createdAt", "updatedAt"})
    @@ [defaultNotifications |-> Pick(item.defaultNotifications, DefaultNotificationKeys)]

cleanedUserCategory(tbl, k) ==
    [categoryId |-> k[2][2]] @@ Pick(tbl[k], {"categoryName", "createdAt", "updatedAt"})

cleanedUserTask(tbl, k) ==
    [taskId |-> k[2][2],
     taskNotes |-> IF TruthyStr(tbl[k], "taskNotes") THEN tbl[k].taskNotes ELSE "",
     taskDueDate |-> IF TruthyNum(tbl[k], "taskDueDate") THEN tbl[k].taskDueDate ELSE 0]
    @@ Pick(tbl[k], {"taskTitle", "taskCompleted", "categoryId", "createdAt", "updatedAt"})

cleanedTaskNotification(tbl, k) ==
    [notificationId |-> k[2][4], taskId |-> k[2][2]]
    @@ Pick(tbl[k], {"notificationEnabled", "reminderTimeBeforeDue", "createdAt", "updatedAt"})

UserData(userSettings, userCategories, userTasks, taskNotifications) ==
    [userSettings |-> userSettings, userCategories |-> userCategories,
     userTasks |-> userTasks, taskNotifications |-> taskNotifications]

\* getOk: the first docClient.get succeeds (it is outside any try block);
\* storeOk: the put, or the reads of the existing-user branch, succeed;
\* catLen, taskLen: the lengths of the pages the two queries return.
initializeUser(tbl, userId, t, getOk, storeOk, catLen, taskLen) ==
    IF Falsy(userId)
    THEN Outcome(tbl, Response(400, "User ID is missing in the request headers"), 0)
    ELSE IF ~getOk
    THEN Called(Outcome(tbl, Uncaught, 0), 1)
    ELSE IF ~Exists(tbl, SettingsKey(userId))
    THEN IF ~storeOk
         THEN Called(Outcome(tbl, Response(500, "Error creating user and settings"), 0), 2)
         ELSE Called(Outcome(DdbPut(tbl, SettingsKey(userId), defaultUserSettings(t)),
                             [Response(200, "User and settings created successfully")
                                 EXCEPT !.data = UserData(defaultUserSettings(t), {}, {}, {})],
                             0), 2)
    ELSE LET userSettings == DdbGet(tbl, SettingsKey(userId))
             tasksAndNotifications == DdbQueryPage(tbl, userId, "TASK#", taskLen)
         IN \* Item.defaultNotifications["5"] throws when the item has no such map
            IF ~storeOk \/ ~Has(userSettings, "defaultNotifications")
            THEN Called(Outcome(tbl, Uncaught, 0), 4)
            ELSE Called(Outcome(tbl,
                   [Response(200, "User data retrieved successfully")
                      EXCEPT !.data = UserData(
                        cleanedUserSettings(userSettings),
                        { cleanedUserCategory(tbl, k) :
                            k \in DdbQueryPage(tbl, userId, "CATEGORY#", catLen) },
                        { cleanedUserTask(tbl, k) :
                            k \in { j \in tasksAndNotifications : Len(j[2]) = 2 } },
                        { cleanedTaskNotification(tbl, k) :
                            k \in { j \in tasksAndNotifications : Len(j[2]) = 4 } })],
                   0), 4)

(***************************************************************************)
(* createTaskNotification.handler                                          *)
(***************************************************************************)
createTaskNotification(tbl, userId, taskId, body, t, storeOk, n) ==
    IF Falsy(userId)
    THEN Outcome(tbl, Response(400, "User ID is missing in the request headers"), 0)
    ELSE IF body.text = "absent"
    THEN Outcome(tbl, Response(400, "Request body is missing"), 0)
    ELSE IF taskId = NoParam
    THEN Outcome(tbl, Response(400, "Task ID is missing in the request query string parameters"), 0)
    ELSE IF body.text = "invalid"
    THEN Outcome(tbl, Uncaught, 1)
    ELSE LET notificationId == uuidv4(n)
             requestBody == body.obj
             item == [notificationEnabled |->
                         IF Has(requestBody, "notificationEnabled")
                         THEN requestBody.notificationEnabled ELSE TRUE,
                      reminderTimeBeforeDue |->
                         IF Has(requestBody, "reminderTimeBeforeDue")
                         THEN requestBody.reminderTimeBeforeDue ELSE 0,
                      createdAt |-> t, updatedAt |-> t]
             cleaned == [taskId |-> taskId, notificationId |-> notificationId] @@ item
         IN \* an undefined reminderTimeBeforeDue makes the document client throw
            IF ~storeOk \/ ~Has(requestBody, "reminderTimeBeforeDue")
            THEN Called(Outcome(tbl, Response(500, "Error creating task notification"), 1), 1)
            ELSE Called(Outcome(DdbPut(tbl, NotificationKey(userId, taskId, notificationId), item),
                                [Response(200, "Task notification created successfully")
                                    EXCEPT !.notifications = {cleaned}], 1), 1)

(***************************************************************************)
(* createUserTask.handler                                                  *)
(***************************************************************************)
\* Object.keys of a selection map: integer-like keys in ascending order.
KeyOrder == <<"5", "15", "30", "45", "60">>

\* parseInt(reminderTime)
parseInt(k) ==
    CASE k = "5" -> 5 [] k = "15" -> 15 [] k = "30" -> 30 [] k = "45" -> 45 [] k = "60" -> 60

IsSelected(notifications, k) == Has(notifications, k) /\ notifications[k]

\* Object.keys(notifications).filter((key) => notifications[key])
SelectedKeys(notifications) ==
    SelectSeq(KeyOrder, LAMBDA k : IsSelected(notifications, k))

OptionalStr(obj, a) == IF TruthyStr(obj, a) THEN a :> obj[a] ELSE << >>

OptionalNum(obj, a) == IF TruthyNum(obj, a) THEN a :> obj[a] ELSE << >>

\* docClient.batchWrite of PutRequests.  It throws for an empty request
\* list or a failing call (batchOk = FALSE) and then writes nothing;
\* otherwise it writes every request but those it reports back as
\* UnprocessedItems.
DdbBatchWriteThrows(requestKeys, batchOk) == requestKeys = {} \/ ~batchOk

DdbBatchPut(tbl, items, unprocessed) ==
    LET written == DOMAIN items \ unprocessed
    IN [k \in DOMAIN tbl \cup written |-> IF k \in written THEN items[k] ELSE tbl[k]]

\* putOk / batchOk: the two store calls succeed; unprocessed: the selected
\* reminder keys whose PutRequest the batch write hands back unprocessed.
createUserTask(tbl, userId, body, t, putOk, batchOk, unprocessed, n) ==
    IF Falsy(userId)
    THEN Outcome(tbl, Response(400, "User ID is missing in the request headers"), 0)
    ELSE IF body.text = "absent"
    THEN Outcome(tbl, Response(400, "Request body is missing"), 0)
    ELSE IF body.text = "invalid"
    THEN Outcome(tbl, Uncaught, 1)
    ELSE IF ~Has(body.obj, "defaultNotifications")
    THEN Outcome(tbl, Uncaught, 1)
    ELSE
    LET requestBody == body.obj
        taskId == uuidv4(n)
        taskItem == [taskTitle |-> requestBody.taskTitle, taskCompleted |-> FALSE,
                     createdAt |-> t, updatedAt |-> t]
                    @@ OptionalStr(requestBody, "taskNotes")
                    @@ OptionalNum(requestBody, "taskDueDate")
                    @@ OptionalStr(requestBody, "categoryId")
        selected == SelectedKeys(requestBody.defaultNotifications)
        drawn == 1 + Len(selected)
        notificationId(i) == uuidv4(n + i)
        notificationItem(i) ==
            [notificationEnabled |-> TRUE, reminderTimeBeforeDue |-> parseInt(selected[i]),
             createdAt |-> t, updatedAt |-> t]
        keyOf(i) == NotificationKey(userId, taskId, notificationId(i))
        notificationItems ==
            [k \in { keyOf(i) : i \in 1..Len(selected) } |->
                notificationItem(CHOOSE i \in 1..Len(selected) : keyOf(i) = k)]
        unprocessedKeys ==
            { keyOf(i) : i \in { j \in 1..Len(selected) : selected[j] \in unprocessed } }
        cleanedTask ==
            [taskId |-> taskId, taskTitle |-> requestBody.taskTitle,
             taskNotes |-> IF TruthyStr(requestBody, "taskNotes") THEN requestBody.taskNotes ELSE "",
             taskDueDate |-> IF TruthyNum(requestBody, "taskDueDate") THEN requestBody.taskDueDate ELSE 0,
             createdAt |-> t, updatedAt |-> t]
            @@ (IF Has(requestBody, "taskCompleted")
                THEN "taskCompleted" :> requestBody.taskCompleted ELSE << >>)
            @@ OptionalStr(requestBody, "categoryId")
        cleanedNotifications ==
            { [notificationId |-> notificationId(i), taskId |-> taskId] @@ notificationItem(i) :
                i \in 1..Len(selected) }
        afterPut == DdbPut(tbl, TaskKey(userId, taskId), taskItem)
    IN IF ~putOk
       THEN Called(Outcome(tbl, Response(500, "Error creating task and its notifications"),
                           drawn), 1)
       ELSE IF DdbBatchWriteThrows(DOMAIN notificationItems, batchOk)
       THEN Called(Outcome(afterPut, Response(500, "Error creating task and its notifications"),
                           drawn), 2)
       ELSE Called(Outcome(DdbBatchPut(afterPut, notificationItems, unprocessedKeys),
                           [Response(200, "Task and its notifications created successfully")
                               EXCEPT !.task = cleanedTask,
                                      !.notifications = cleanedNotifications],
                           drawn), 2)

(***************************************************************************)
(* deleteUserTask.handler, deleteTaskNotification.handler (part_005),      *)
(* createUserCategory.handler                                              *)
(***************************************************************************)
CategoryKey(userId, categoryId) == <<UserPk(userId), <<"CATEGORY#", categoryId>> >>

\* docClient.delete without a ConditionExpression: the item is removed if
\* there is one; deleting a key that holds no item succeeds too.
DdbDelete(tbl, key) == [k \in DOMAIN tbl \ {key} |-> tbl[k]]

deleteUserTask(tbl, userId, taskId, storeOk) ==
    IF Falsy(userId)
    THEN Outcome(tbl, Response(400, "User ID is missing in the request headers"), 0)
    ELSE IF taskId = NoParam
    THEN Outcome(tbl, Response(400, "Task ID is missing in the request query string parameters"), 0)
    ELSE IF ~storeOk
    THEN Called(Outcome(tbl, Response(500, "Error deleting task"), 0), 1)
    ELSE Called(Outcome(DdbDelete(tbl, TaskKey(userId, taskId)),
                        Response(200, "Task deleted successfully"), 0), 1)

deleteTaskNotificationUnchecked(tbl, userId, taskId, notificationId, storeOk) ==
    IF Falsy(userId)
    THEN Outcome(tbl, Response(400, "User ID is missing in the request headers"), 0)
    ELSE IF taskId = NoParam
    THEN Outcome(tbl, Response(400, "Task ID is missing in the request query string parameters"), 0)
    ELSE IF ~storeOk
    THEN Called(Outcome(tbl, Response(500, "Error deleting task notification"), 0), 1)
    ELSE Called(Outcome(DdbDelete(tbl, NotificationKey(userId, taskId, notificationId)),
                        Response(200, "Task notification deleted successfully"), 0), 1)

deleteTaskNotification(tbl, userId, taskId, notificationId, storeOk) ==
    IF Falsy(userId)
    THEN Outcome(tbl, Response(400, "User ID is missing in the request headers"), 0)
    ELSE IF taskId = NoParam
    THEN Outcome(tbl, Response(400, "Task ID is missing in the request query string parameters"), 0)
    ELSE IF notificationId = NoParam
    THEN Outcome(tbl, Response(400, "Notification ID is missing in the request query string parameters"), 0)
    ELSE IF ~storeOk
    THEN Called(Outcome(tbl, Response(500, "Error deleting task notification"), 0), 1)
    ELSE Called(Outcome(DdbDelete(tbl, NotificationKey(userId, taskId, notificationId)),
                        Response(200, "Task notification deleted successfully"), 0), 1)

createUserCategory(tbl, userId, body, t, storeOk, n) ==
    IF Falsy(userId)
    THEN Outcome(tbl, Response(400, "User ID is missing in the request headers"), 0)
    ELSE IF body.text = "absent"
    THEN Outcome(tbl, Response(400, "Request body is missing"), 0)
    ELSE IF body.text = "invalid"
    THEN Outcome(tbl, Uncaught, 1)
    ELSE LET categoryId == uuidv4(n)
             requestBody == body.obj
         IN \* an undefined categoryName makes the document client throw
            IF ~storeOk \/ ~Has(requestBody, "categoryName")
            THEN Called(Outcome(tbl, Response(500, "Error creating category"), 1), 1)
            ELSE Called(Outcome(DdbPut(tbl, CategoryKey(userId, categoryId),
                                       [categoryName |-> requestBody.categoryName,
                                        createdAt |-> t, updatedAt |-> t]),
                                Response(200, "Category created successfully"), 1), 1)

(***************************************************************************)
(* Handler invocations                                                     *)
(***************************************************************************)
Selection(chosen) == [k \in DefaultNotificationKeys |-> k \in chosen]

CreateTaskBodies ==
    { NoBody, BadJson,
      Json([taskTitle |-> "A"]),
      Json([taskTitle |-> "A", defaultNotifications |-> Selection({})]),
      Json([taskTitle |-> "A", defaultNotifications |-> Selection({"5"})]),
      Json([taskTitle |-> "A", taskCompleted |-> TRUE, taskDueDate |-> 7,
            defaultNotifications |-> Selection({"5", "15"})]) }

TaskPatchBodies ==
    { NoBody, BadJson, Json(<< >>),
      Json([taskTitle |-> "B"]),
      Json([taskCompleted |-> TRUE]),
      Json([newDueDate |-> 9]),
      Json([createdAt |-> 99]),
      Json([updatedAt |-> 0]) }

SettingsPatchBodies ==
    { NoBody, BadJson, Json(<< >>),
      Json([sortMode |-> "date"]),
      Json([defaultNotifications |-> [k \in {"5"} |-> TRUE]]),
      Json([createdAt |-> 99]) }

NotificationBodies ==
    { NoBody, BadJson,
      Json([reminderTimeBeforeDue |-> 10]),
      Json([notificationEnabled |-> FALSE, reminderTimeBeforeDue |-> 20]) }

NotificationPatchBodies ==
    { NoBody, BadJson,
      Json([notificationEnabled |-> FALSE]),
      Json([createdAt |-> 99]) }

CategoryBodies ==
    { NoBody, BadJson, Json(<< >>), Json([categoryName |-> "Work"]) }

\* Task identifiers a query parameter can carry: none, one no item
\* carries, or the identifier of a task or of a notification's task in the
\* table.
TaskIdsInTable == { k[2][2] : k \in { x \in DOMAIN table : x[2][1] = "TASK#" } }

TaskIdParams == {NoParam, UnknownId} \cup TaskIdsInTable

\* (taskId, notificationId) pairs a request can carry: a missing
\* parameter, a pair no item carries, or the pair of a stored notification
\* (under its USER# key or under the key updateTaskNotification writes).
NotificationIdPairs ==
    { <<NoParam, NoParam>>, <<UnknownId, NoParam>>, <<UnknownId, UnknownId>> }
    \cup { <<k[2][2], k[2][4]>> : k \in { x \in DOMAIN table : Len(x[2]) = 4 } }
    \cup { <<k[1][2], k[2][2]>> : k \in { x \in DOMAIN table : x[1][1] = "TASK#" } }

\* Date.now() at this invocation: the clock has advanced since the last
\* invocation, or it has not.
ClockReadings == { t \in {now, now + 1} : t <= MaxTime }

\* The record of an invocation: the event, whether the store calls went
\* well, and the key the handler addressed (createUserTask: taskId is the
\* identifier it drew for the task).
Request(op, userId, taskId, notificationId, body, storeOk, key) ==
    [op |-> op, userId |-> userId, taskId |-> taskId, notificationId |-> notificationId,
     body |-> body, storeOk |-> storeOk, key |-> key, existed |-> Exists(table, key),
     complete |-> TRUE]

NoKey == << << >>, << >> >>

\* One representative invocation per early return: a request that fails
\* validation is enumerated once, not once per value of the inputs the
\* handler never looks at.
OnePerEarlyReturnNoBody(userId, ids, t, storeOk) ==
    /\ userId = NoHeader => ((\A i \in ids : i = NoParam) /\ t = now /\ storeOk)
    /\ (\E i \in ids : i = NoParam) => (t = now /\ storeOk)
    /\ ~storeOk => t = now

OnePerEarlyReturn(userId, ids, body, t, storeOk) ==
    /\ OnePerEarlyReturnNoBody(userId, ids, t, storeOk)
    /\ userId = NoHeader => body = NoBody
    /\ body.text # "json" => (t = now /\ storeOk)

\* The invocation's effects: the table, the response, the clock, the
\* identifiers drawn and the request record.
Invoke(request, t, outcome) ==
    /\ nextId + outcome.drawn <= MaxIds + 1
    /\ reqNo' = reqNo + 1
    /\ req' = request
    /\ now' = t
    /\ table' = outcome.table
    /\ resp' = outcome.resp
    /\ storeCalls' = outcome.calls
    /\ nextId' = nextId + outcome.drawn
    /\ UNCHANGED notStore

InitializeUser ==
    /\ reqNo < MaxReq
    /\ \E userId \in UserIdHeaders, t \in ClockReadings, getOk \in BOOLEAN, storeOk \in BOOLEAN :
        /\ OnePerEarlyReturnNoBody(userId, {}, t, getOk /\ storeOk)
        /\ ~getOk => storeOk
        /\ \E catLen \in FirstPageLengths(Cardinality(Matching(table, userId, "CATEGORY#"))),
              taskLen \in FirstPageLengths(Cardinality(Matching(table, userId, "TASK#"))) :
            Invoke([Request("initializeUser", userId, NoParam, NoParam, NoBody,
                            getOk /\ storeOk, SettingsKey(userId))
                      EXCEPT !.complete =
                        /\ catLen = Cardinality(Matching(table, userId, "CATEGORY#"))
                        /\ taskLen = Cardinality(Matching(table, userId, "TASK#"))],
                   t, initializeUser(table, userId, t, getOk, storeOk, catLen, taskLen))

CreateUserTask ==
    /\ reqNo < MaxReq
    /\ \E userId \in UserIdHeaders, body \in CreateTaskBodies, t \in ClockReadings,
       putOk \in BOOLEAN, batchOk \in BOOLEAN, unprocessed \in SUBSET {"5", "15"} :
        /\ OnePerEarlyReturn(userId, {}, body, t, putOk /\ batchOk)
        /\ (~putOk \/ ~batchOk) => unprocessed = {}
        /\ ~putOk => batchOk
        /\ unprocessed # {} =>
              /\ body.text = "json"
              /\ Has(body.obj, "defaultNotifications")
              /\ \A k \in unprocessed : IsSelected(body.obj.defaultNotifications, k)
        /\ Invoke(Request("createUserTask", userId, uuidv4(nextId), NoParam, body,
                          putOk /\ batchOk /\ unprocessed = {},
                          TaskKey(userId, uuidv4(nextId))),
                  t, createUserTask(table, userId, body, t, putOk, batchOk, unprocessed, nextId))

CreateTaskNotification ==
    /\ reqNo < MaxReq
    /\ \E userId \in UserIdHeaders, taskId \in TaskIdParams, body \in NotificationBodies,
       t \in ClockReadings, storeOk \in BOOLEAN :
        /\ OnePerEarlyReturn(userId, {taskId}, body, t, storeOk)
        /\ Invoke(Request("createTaskNotification", userId, taskId, NoParam, body, storeOk,
                          NotificationKey(userId, taskId, uuidv4(nextId))),
                  t, createTaskNotification(table, userId, taskId, body, t, storeOk, nextId))

UpdateUserTask ==
    /\ reqNo < MaxReq
    /\ \E userId \in UserIdHeaders, taskId \in TaskIdParams, body \in TaskPatchBodies,
       t \in ClockReadings, storeOk \in BOOLEAN :
        /\ OnePerEarlyReturn(userId, {taskId}, body, t, storeOk)
        /\ Invoke(Request("updateUserTask", userId, taskId, NoParam, body, storeOk,
                          TaskKey(userId, taskId)),
                  t, updateUserTask(table, userId, taskId, body, t, storeOk))

UpdateUserSettings ==
    /\ reqNo < MaxReq
    /\ \E userId \in UserIdHeaders, body \in SettingsPatchBodies,
       t \in ClockReadings, storeOk \in BOOLEAN :
        /\ OnePerEarlyReturn(userId, {}, body, t, storeOk)
        /\ Invoke(Request("updateUserSettings", userId, NoParam, NoParam, body, storeOk,
                          SettingsKey(userId)),
                  t, updateUserSettings(table, userId, body, t, storeOk))

UpdateTaskNotification ==
    /\ reqNo < MaxReq
    /\ \E userId \in UserIdHeaders, ids \in NotificationIdPairs,
       body \in NotificationPatchBodies, t \in ClockReadings, storeOk \in BOOLEAN :
        /\ OnePerEarlyReturn(userId, {ids[1], ids[2]}, body, t, storeOk)
        /\ Invoke(Request("updateTaskNotification", userId, ids[1], ids[2], body, storeOk,
                          UpdateNotificationKey(ids[1], ids[2])),
                  t, updateTaskNotification(table, userId, ids[1], ids[2], body, t, storeOk))

CreateUserCategory ==
    /\ reqNo < MaxReq
    /\ \E userId \in UserIdHeaders, body \in CategoryBodies, t \in ClockReadings,
          storeOk \in BOOLEAN :
        /\ OnePerEarlyReturn(userId, {}, body, t, storeOk)
        /\ Invoke(Request("createUserCategory", userId, NoParam, NoParam, body, storeOk,
                          CategoryKey(userId, uuidv4(nextId))),
                  t, createUserCategory(table, userId, body, t, storeOk, nextId))

\* The delete handlers read no clock.
DeleteUserTask ==
    /\ reqNo < MaxReq
    /\ \E userId \in UserIdHeaders, taskId \in TaskIdParams, storeOk \in BOOLEAN :
        /\ OnePerEarlyReturnNoBody(userId, {taskId}, now, storeOk)
        /\ Invoke(Request("deleteUserTask", userId, taskId, NoParam, NoBody, storeOk,
                          TaskKey(userId, taskId)),
                  now, deleteUserTask(table, userId, taskId, storeOk))

DeleteTaskNotification ==
    /\ reqNo < MaxReq
    /\ \E userId \in UserIdHeaders, ids \in NotificationIdPairs, storeOk \in BOOLEAN :
        /\ OnePerEarlyReturnNoBody(userId, {ids[1], ids[2]}, now, storeOk)
        /\ Invoke(Request("deleteTaskNotification", userId, ids[1], ids[2], NoBody, storeOk,
                          NotificationKey(userId, ids[1], ids[2])),
                  now, deleteTaskNotification(table, userId, ids[1], ids[2], storeOk))

StoreIdle ==
    /\ table = << >>
    /\ now = 0
    /\ nextId = 1
    /\ reqNo = 0
    /\ req = [op |-> "none", userId |-> NoHeader, taskId |-> NoParam,
              notificationId |-> NoParam, body |-> NoBody, storeOk |-> TRUE,
              key |-> NoKey, existed |-> FALSE, complete |-> TRUE]
    /\ resp = Response(0, "none")
    /\ storeCalls = 0

Next ==
    \/ InitializeUser
    \/ CreateUserTask
    \/ CreateTaskNotification
    \/ UpdateUserTask
    \/ UpdateUserSettings
    \/ UpdateTaskNotification
    \/ CreateUserCategory
    \/ DeleteUserTask
    \/ DeleteTaskNotification

(***************************************************************************)
(* deleteAccount.handler, one step per store round trip.  In this          *)
(* specification the items of a partition are numbered in sort-key order:  *)
(* the sort key of item i is <<"TASK#", i>>.                               *)
(***************************************************************************)
BatchLimit == 25

ItemKey(userId, i) == <<UserPk(userId), <<"TASK#", i>> >>

\* The partition of a user as docClient.query sees it: the sort positions
\* of its items.
Partition(tbl, userId) == { k[2][2] : k \in { x \in DOMAIN tbl : x[1] = UserPk(userId) } }

\* The n lowest elements of a set of numbers, as a sequence in order.
RECURSIVE FirstN(_, _)
FirstN(S, n) ==
    IF n = 0 \/ S = {} THEN << >>
    ELSE LET m == CHOOSE x \in S : \A y \in S : x <= y
         IN <<m>> \o FirstN(S \ {m}, n - 1)

Range(seq) == { seq[i] : i \in 1..Len(seq) }

\* deleteRequests sent as one request, whatever their number.
ChunksWhole(requests) == IF Len(requests) = 0 THEN << >> ELSE <<requests>>

\* deleteRequests.slice(i, i + 25) for i = 0, 25, 50, ...
RECURSIVE Chunks(_)
Chunks(requests) ==
    IF Len(requests) = 0 THEN << >>
    ELSE IF Len(requests) <= BatchLimit THEN <<requests>>
    ELSE <<SubSeq(requests, 1, BatchLimit)>>
         \o Chunks(SubSeq(requests, BatchLimit + 1, Len(requests)))

\* docClient.batchWrite of DeleteRequests: every key is deleted but those
\* handed back as UnprocessedItems.
DdbBatchDelete(tbl, keys, unprocessed) ==
    [k \in DOMAIN tbl \ (keys \ unprocessed) |-> tbl[k]]

\* The subsets of S of at most k elements.
RECURSIVE SubsetsUpTo(_, _)
SubsetsUpTo(S, k) ==
    IF k = 0 THEN { {} }
    ELSE LET smaller == SubsetsUpTo(S, k - 1)
         IN smaller \cup { T \cup {x} : T \in smaller, x \in S }

\* Page lengths the store may choose for a query with r items remaining.
PageLengths(r) == { n \in {BatchLimit \div 2 + 1, BatchLimit, BatchLimit + 1, r} : n <= r }

DeleteIdle ==
    /\ delPc = "idle"
    /\ delLastKey = 0
    /\ delPage = << >>
    /\ delNextKey = 0
    /\ delScanned = {}
    /\ delRounds = 0
    /\ delStart = {}
    /\ delPrior = {}

\* Lines 31-53: the handler starts; without X-User-Id it returns 400.
DeleteAccountStart ==
    /\ delPc \in {"idle", "done"}
    /\ reqNo < MaxReq
    /\ \E userId \in UserIdHeaders :
        /\ reqNo' = reqNo + 1
        /\ req' = [req EXCEPT !.op = "deleteAccount", !.userId = userId]
        /\ delLastKey' = 0
        /\ delPage' = << >>
        /\ delNextKey' = 0
        /\ delScanned' = {}
        /\ delRounds' = 0
        /\ delStart' = IF Falsy(userId) THEN {} ELSE Partition(table, userId)
        /\ delPrior' = IF req.op = "deleteAccount" /\ ~Falsy(req.userId)
                       THEN delPrior \cup {<<req.userId, resp.statusCode>>} ELSE delPrior
        /\ storeCalls' = 0
        /\ IF Falsy(userId)
           THEN /\ delPc' = "done"
                /\ resp' = Response(400, "User ID is missing in the request headers")
           ELSE /\ delPc' = "query"
                /\ resp' = Response(0, "running")
        /\ UNCHANGED <<table, notDelete>>

\* Lines 57-59 and 92-94: docClient.query with ExclusiveStartKey.  The
\* store returns the next items of the partition, as many as it chooses,
\* and a LastEvaluatedKey whenever items remain beyond the page (it may
\* also return one with the last items).  An empty page skips the batch
\* deletes.
DeleteAccountQuery ==
    /\ delPc = "query"
    /\ LET rest == { i \in Partition(table, req.userId) : i > delLastKey }
       IN \E queryOk \in BOOLEAN, n \in PageLengths(Cardinality(rest)) \cup {0},
             more \in BOOLEAN :
            /\ (n = 0) = (rest = {})
            /\ ~queryOk => (n = Cardinality(rest) /\ ~more)
            /\ n < Cardinality(rest) => more
            /\ n = 0 => ~more
            /\ IF ~queryOk
               THEN /\ delPc' = "done"
                    /\ resp' = Response(500, "Error deleting user items")
                    /\ UNCHANGED <<delPage, delNextKey, delLastKey, delScanned>>
               ELSE LET page == FirstN(rest, n)
                        lastEvaluatedKey == IF more THEN page[Len(page)] ELSE 0
                    IN /\ delScanned' = delScanned \cup Range(page)
                       /\ IF Len(page) > 0
                          THEN /\ delPc' = "batches"
                               /\ delPage' = page
                               /\ delNextKey' = lastEvaluatedKey
                               /\ UNCHANGED <<delLastKey, resp>>
                          ELSE /\ delPage' = << >>
                               /\ delNextKey' = 0
                               /\ delLastKey' = lastEvaluatedKey
                               /\ delPc' = "done"
                               /\ resp' = Response(200, "User items deleted successfully")
    /\ storeCalls' = storeCalls + 1
    /\ UNCHANGED <<table, reqNo, req, delRounds, delStart, delPrior, notDelete>>

\* Lines 62-94: the page's delete requests are cut into chunks, all batch
\* writes are issued and awaited together.  failed: the chunk whose batch
\* write throws (0: none); landed: the other chunks whose deletes reached
\* the store although the handler had already returned the error;
\* unprocessed: keys the store hands back as UnprocessedItems.
DeleteAccountBatches ==
    /\ delPc = "batches"
    /\ LET chunks == Chunks(delPage)
       IN \E failed \in 0..Len(chunks), landed \in SUBSET (1..Len(chunks)),
             unprocessed \in SubsetsUpTo(Range(delPage), MaxUnprocessed) :
            /\ failed = 0 => landed = 1..Len(chunks)
            /\ failed # 0 => (failed \notin landed /\ unprocessed = {})
            /\ LET keys == UNION { { ItemKey(req.userId, i) : i \in Range(chunks[c]) } : c \in landed }
                   left == { ItemKey(req.userId, i) : i \in unprocessed }
               IN table' = DdbBatchDelete(table, keys, left)
            /\ IF failed # 0
               THEN /\ delPc' = "done"
                    /\ resp' = Response(500, "Error deleting user items")
                    /\ UNCHANGED delLastKey
               ELSE /\ delLastKey' = delNextKey
                    /\ IF delNextKey # 0
                       THEN /\ delPc' = "query"
                            /\ UNCHANGED resp
                       ELSE /\ delPc' = "done"
                            /\ resp' = Response(200, "User items deleted successfully")
    /\ storeCalls' = storeCalls + Len(Chunks(delPage))
    /\ delRounds' = delRounds + 1
    /\ UNCHANGED <<delPage, delNextKey, delScanned, delStart, delPrior, reqNo, req, notDelete>>

NextDelete ==
    \/ DeleteAccountStart
    \/ DeleteAccountQuery
    \/ DeleteAccountBatches

\* Partition sizes deleteAccount is run on.
PartitionSizes == {0, 1, BatchLimit + 1, MaxItems}

StoredItem == [createdAt |-> 0, updatedAt |-> 0]

\* A table holding n items of u1 and one item of u2.
TableOf(n) ==
    [k \in { ItemKey("u1", i) : i \in 1..n } \cup { ItemKey("u2", 1) } |-> StoredItem]

\* C4: when deleteAccount has returned success for a user whose partition
\* held more than 25 items, no item remains under that user's partition.
C4_PartitionEmptyAfterSuccess ==
    (/\ delPc = "done"
     /\ req.op = "deleteAccount"
     /\ resp.statusCode = 200
     /\ Cardinality(delScanned) > BatchLimit)
        => Partition(table, req.userId) = {}

\* The last deleteAccount run has returned success.
DeleteSucceeded ==
    /\ delPc = "done"
    /\ req.op = "deleteAccount"
    /\ resp.statusCode = 200

\* C18: a deleteAccount run that follows an earlier run for the same user
\* and returns success leaves the user's partition empty; when the earlier
\* run had returned success too, it leaves the partition as that run left
\* it.
C18_ReinvokeLeavesEmpty ==
    (DeleteSucceeded /\ \E p \in delPrior : p[1] = req.userId)
        => /\ Partition(table, req.userId) = {}
           /\ <<req.userId, 200>> \in delPrior => Partition(table, req.userId) = delStart

\* ceil(n / 25)
BatchesFor(n) == (n + BatchLimit - 1) \div BatchLimit

\* C19: a deleteAccount run that returned success on a partition of N > 25
\* items has awaited at most ceil(N/25) rounds of concurrent batch writes.
C19_RoundsAtMostCeil ==
    (DeleteSucceeded /\ Cardinality(delStart) > BatchLimit)
        => delRounds <= BatchesFor(Cardinality(delStart))

(***************************************************************************)
(* deleteAccount.handler, one step per store request: the query of a page  *)
(* and each batch write of the page are steps of their own, so that the    *)
(* batch writes of a page are seen in flight.                              *)
(***************************************************************************)
NotDeleting ==
    [pc |-> "idle", userId |-> NoHeader, lastEvaluatedKey |-> 0, page |-> << >>,
     nextKey |-> 0, requests |-> << >>, inFlight |-> {}, tokens |-> << >>,
     failedAt |-> 0, statusCode |-> 0]

BatchIdle == bat = NotDeleting

\* The page the handler has in hand: pages are numbered as fetched.
PageInHand == Len(bat.tokens)

\* The keys a query with this ExclusiveStartKey ranges over.
QueryFrom(tbl, userId, exclusiveStartKey) ==
    { i \in Partition(tbl, userId) : i > exclusiveStartKey }

\* while (lastEvaluatedKey): the loop goes on while the page in hand
\* carried a LastEvaluatedKey.  WhileAlways loops whatever the page carried.
WhileAlways(lastEvaluatedKey) == TRUE

WhileLastEvaluatedKey(lastEvaluatedKey) == lastEvaluatedKey # 0

\* await Promise.all(batchPromises) of a page of `issued` batch writes
\* resumes when none of them is in flight any more.  PromiseAllFirst resumes
\* with the first one that completes.
PromiseAllFirst(inFlight, pageNo, issued) ==
    Cardinality({ f \in inFlight : f.page = pageNo }) < issued

PromiseAll(inFlight, pageNo, issued) ==
    { f \in inFlight : f.page = pageNo } = {}

\* Lines 31-53: the handler starts; without X-User-Id it returns 400.
DeleteAccountInvoke ==
    /\ bat.pc = "idle"
    /\ \E userId \in UserIdHeaders :
        bat' = IF Falsy(userId)
               THEN [bat EXCEPT !.pc = "done", !.userId = userId, !.statusCode = 400]
               ELSE [bat EXCEPT !.pc = "query", !.userId = userId]
    /\ UNCHANGED <<table, notBatch>>

\* Lines 55-87: await docClient.query; on a page with items the delete
\* requests are built, cut into chunks and every batch write is issued
\* before the handler awaits them (the for loop has no await).  A page
\* without items goes straight to lines 92-94.
DeleteAccountFetch ==
    /\ bat.pc = "query"
    /\ LET rest == QueryFrom(table, bat.userId, bat.lastEvaluatedKey)
       IN \E queryOk \in BOOLEAN, n \in PageLengths(Cardinality(rest)) \cup {0},
             more \in BOOLEAN :
            /\ (n = 0) = (rest = {})
            /\ ~queryOk => (n = Cardinality(rest) /\ ~more)
            /\ n < Cardinality(rest) => more
            /\ n = 0 => ~more
            /\ LET page == FirstN(rest, n)
                   token == IF more THEN page[Len(page)] ELSE 0
                   chunks == Chunks(page)
                   pageNo == PageInHand + 1
               IN bat' =
                    IF ~queryOk
                    THEN [bat EXCEPT !.pc = "done", !.statusCode = 500]
                    ELSE IF Len(page) > 0
                    THEN [bat EXCEPT !.pc = "await", !.page = page, !.nextKey = token,
                                     !.requests = chunks,
                                     !.inFlight = @ \cup { [page |-> pageNo, keys |-> chunks[c]] :
                                                           c \in 1..Len(chunks) },
                                     !.tokens = Append(@, more)]
                    ELSE [bat EXCEPT !.pc = IF WhileLastEvaluatedKey(token)
                                            THEN "query" ELSE "done",
                                     !.statusCode = IF WhileLastEvaluatedKey(token)
                                                    THEN @ ELSE 200,
                                     !.page = page, !.nextKey = token, !.requests = chunks,
                                     !.lastEvaluatedKey = token,
                                     !.tokens = Append(@, more)]
    /\ UNCHANGED <<table, notBatch>>

\* One batch write in flight completes: its keys are deleted, but a key
\* the store hands back as unprocessed, or it throws.  Lines 89-94: when it
\* throws the handler answers 500; when it was the last of the page in
\* hand the handler takes the page's LastEvaluatedKey and loops or answers
\* 200.  A batch write the handler no longer awaits only reaches the store.
DeleteAccountSettle(f) ==
    /\ f \in bat.inFlight
    /\ \E ok \in BOOLEAN, unprocessed \in { {}, {f.keys[1]} } :
        /\ ~ok => unprocessed = {}
        /\ table' = IF ok
                    THEN DdbBatchDelete(table,
                                        { ItemKey(bat.userId, i) : i \in Range(f.keys) },
                                        { ItemKey(bat.userId, i) : i \in unprocessed })
                    ELSE table
        /\ LET flight == bat.inFlight \ {f}
               awaited == bat.pc = "await" /\ f.page = PageInHand
           IN bat' =
                IF ~awaited THEN [bat EXCEPT !.inFlight = flight]
                ELSE IF ~ok
                THEN [bat EXCEPT !.inFlight = flight, !.pc = "done", !.statusCode = 500,
                                 !.failedAt = f.page]
                ELSE IF PromiseAll(flight, f.page, Len(bat.requests))
                THEN [bat EXCEPT !.inFlight = flight, !.lastEvaluatedKey = bat.nextKey,
                                 !.pc = IF WhileLastEvaluatedKey(bat.nextKey)
                                        THEN "query" ELSE "done",
                                 !.statusCode = IF WhileLastEvaluatedKey(bat.nextKey)
                                                THEN @ ELSE 200]
                ELSE [bat EXCEPT !.inFlight = flight]
    /\ UNCHANGED notBatch

NextBatch ==
    \/ DeleteAccountInvoke
    \/ DeleteAccountFetch
    \/ \E f \in bat.inFlight : DeleteAccountSettle(f)

\* C22: the batch writes in flight all belong to one page; the next page is
\* queried only when no batch write is in flight; and once a batch write
\* awaited by the handler has thrown, the run has ended with 500 and no
\* page has been fetched after the page of that batch write.
C22_PagesOneAtATime ==
    /\ \A f, g \in bat.inFlight : f.page = g.page
    /\ bat.pc = "query" => bat.inFlight = {}
    /\ bat.failedAt # 0 =>
          /\ bat.pc = "done"
          /\ bat.statusCode = 500
          /\ PageInHand = bat.failedAt

\* A batch write of the first page has thrown while the page carried a
\* continuation token and its other batch write was still in flight.
C22_Witness ==
    /\ bat.failedAt = 1
    /\ bat.nextKey # 0
    /\ bat.inFlight # {}
    /\ bat.statusCode = 500

\* The pages fetched so far: each but the last carried a token, after a
\* page without one no page is fetched, and a run that succeeded ended on
\* a page without one.
FetchedWhileToken ==
    /\ \A p \in 1..(PageInHand - 1) : bat.tokens[p]
    /\ (PageInHand > 0 /\ ~bat.tokens[PageInHand]) => bat.pc # "query"
    /\ (bat.pc = "done" /\ bat.statusCode = 200) =>
          (PageInHand > 0 /\ ~bat.tokens[PageInHand])

C24_ChunksPartitionPage ==
    /\ \A c \in 1..Len(bat.requests) :
          /\ Len(bat.requests[c]) \in 1..BatchLimit
          /\ Range(bat.requests[c]) \subseteq Range(bat.page)
    /\ \A i \in Range(bat.page) :
          Cardinality({ x \in { <<c, j>> : c \in 1..Len(bat.requests), j \in 1..BatchLimit } :
                          /\ x[2] <= Len(bat.requests[x[1]])
                          /\ bat.requests[x[1]][x[2]] = i }) = 1

\* A page of 27 items has been cut into two batch writes.
C24_Witness ==
    /\ Len(bat.page) = BatchLimit + 2
    /\ Len(bat.requests) = 2
    /\ Len(bat.requests[1]) = BatchLimit

(***************************************************************************)
(* deleteAccount.handler as one step among the repository handlers, on     *)
(* partitions the store returns in one page and the handler deletes in one *)
(* batch write (at most 25 items).                                         *)
(***************************************************************************)
\* The query without its key condition: every key of the table.
QueryTable(tbl, userId) == DOMAIN tbl

\* KeyConditionExpression "pk = :pk" with :pk = USER#<userId>.
QueryPartition(tbl, userId) == { k \in DOMAIN tbl : k[1] = UserPk(userId) }

deleteAccount(tbl, userId, queryOk, batchOk, unprocessed) ==
    IF Falsy(userId)
    THEN Outcome(tbl, Response(400, "User ID is missing in the request headers"), 0)
    ELSE IF ~queryOk
    THEN Called(Outcome(tbl, Response(500, "Error deleting user items"), 0), 1)
    ELSE IF QueryPartition(tbl, userId) = {}
    THEN Called(Outcome(tbl, Response(200, "User items deleted successfully"), 0), 1)
    ELSE IF ~batchOk
    THEN Called(Outcome(tbl, Response(500, "Error deleting user items"), 0), 2)
    ELSE Called(Outcome(DdbBatchDelete(tbl, QueryPartition(tbl, userId), unprocessed),
                        Response(200, "User items deleted successfully"), 0), 2)

DeleteAccount ==
    /\ reqNo < MaxReq
    /\ \E userId \in UserIdHeaders, queryOk \in BOOLEAN, batchOk \in BOOLEAN :
       \E unprocessed \in SubsetsUpTo(QueryPartition(table, userId), MaxUnprocessed) :
        /\ OnePerEarlyReturnNoBody(userId, {}, now, queryOk /\ batchOk)
        /\ ~queryOk => batchOk
        /\ ~(queryOk /\ batchOk) => unprocessed = {}
        /\ Invoke(Request("deleteAccount", userId, NoParam, NoParam, NoBody,
                          queryOk /\ batchOk, NoKey),
                  now, deleteAccount(table, userId, queryOk, batchOk, unprocessed))

NextTenants ==
    \/ Next
    \/ DeleteAccount

\* The items of a user's partition.
ItemsUnder(tbl, userId) ==
    [k \in { x \in DOMAIN tbl : x[1] = UserPk(userId) } |-> tbl[k]]

\* C27: an invocation that carries X-User-Id u, of a repository handler or
\* of deleteAccount, leaves the partition USER#v of every other user v as
\* it was: no item of it is written, added or deleted.
C27_TenantIsolation ==
    [][ \A v \in Users :
          (reqNo' = reqNo + 1 /\ req'.userId # v)
              => ItemsUnder(table', v) = ItemsUnder(table, v) ]_vars

\* deleteAccount for u1 has emptied the partition of u1 while u2 has items.
C27_Witness ==
    /\ req.op = "deleteAccount"
    /\ req.userId = "u1"
    /\ resp.statusCode = 200
    /\ storeCalls = 2
    /\ DOMAIN ItemsUnder(table, "u1") = {}
    /\ DOMAIN ItemsUnder(table, "u2") # {}

(***************************************************************************)
(* initializeUser.handler (part_006), one step per await, so that          *)
(* invocations interleave with each other and with updateUserSettings.     *)
(***************************************************************************)
Invocations == 1..MaxInvocations

NotInvoked == [pc |-> "idle", userId |-> NoHeader, currentTime |-> 0,
               resp |-> Response(0, "none")]

RaceIdle == inv = [i \in Invocations |-> NotInvoked]

\* Lines 49-78: Date.now(), then the first docClient.get; its result decides
\* the branch.
InitializeUserGet(i) ==
    /\ inv[i].pc = "idle"
    /\ \E userId \in Users, t \in ClockReadings, getOk \in BOOLEAN :
        /\ now' = t
        /\ inv' = [inv EXCEPT ![i] =
                    [pc |-> IF ~getOk THEN "done"
                            ELSE IF Exists(table, SettingsKey(userId)) THEN "read"
                            ELSE "put",
                     userId |-> userId,
                     currentTime |-> t,
                     resp |-> IF getOk THEN Response(0, "running") ELSE Uncaught]]
    /\ UNCHANGED <<table, notRace>>

\* Lines 79-135: the put of the default settings, stamped with the
\* currentTime read before the get.  The branch was decided by that get:
\* the handler goes on as for a table without the item, and its put
\* carries no condition.
InitializeUserPut(i) ==
    /\ inv[i].pc = "put"
    /\ \E storeOk \in BOOLEAN :
        LET out == initializeUser(<< >>, inv[i].userId, inv[i].currentTime, TRUE, storeOk, 0, 0)
        IN /\ table' = IF storeOk
                       THEN DdbPut(table, SettingsKey(inv[i].userId),
                                   out.table[SettingsKey(inv[i].userId)])
                       ELSE table
           /\ inv' = [inv EXCEPT ![i].pc = "done", ![i].resp = out.resp]
    /\ UNCHANGED <<now, notRace>>

\* Lines 136-241: the reads of the existing-user branch and the response.
InitializeUserRead(i) ==
    /\ inv[i].pc = "read"
    /\ \E storeOk \in BOOLEAN :
        inv' = [inv EXCEPT ![i].pc = "done",
                           ![i].resp = initializeUser(table, inv[i].userId, inv[i].currentTime,
                                                      TRUE, storeOk, 0, 0).resp]
    /\ UNCHANGED <<table, now, notRace>>

NextRace ==
    \/ \E i \in Invocations : InitializeUserGet(i)
    \/ \E i \in Invocations : InitializeUserPut(i)
    \/ \E i \in Invocations : InitializeUserRead(i)
    \/ UpdateUserSettings

\* The step is the default-creation write of an initializeUser invocation.
DefaultCreationWrite(i) ==
    /\ inv[i].pc = "put"
    /\ inv'[i].pc = "done"
    /\ inv'[i].resp.statusCode = 200

\* The user's Settings item exists and is one that initializeUser created
\* (it carries all default fields).
SettingsCreated(userId) ==
    /\ Exists(table, SettingsKey(userId))
    /\ Has(table[SettingsKey(userId)], "twelveHour")

\* C20: the default-creation write of initializeUser never lands on a
\* Settings item that already exists, so it never undoes an update of the
\* settings.
C20_SettingsCreatedOnce ==
    [][ \A i \in Invocations :
          DefaultCreationWrite(i) => ~SettingsCreated(inv[i].userId) ]_vars

(***************************************************************************)
(* updateUserTask.handler (part_004) and updateUserSettings.handler        *)
(* (part_007), one step per await, so that two updates run concurrently.   *)
(***************************************************************************)
NotUpdating == [pc |-> "idle", op |-> "none", userId |-> NoHeader, taskId |-> NoParam,
                body |-> NoBody, t |-> 0, resp |-> Response(0, "none")]

NoUpdates(tbl) == [base |-> tbl, of |-> [i \in Invocations |-> NotUpdating]]

ConcIdle == upd = NoUpdates(<< >>)

\* The handler of an invocation, applied to a table.
updateHandler(tbl, u, storeOk) ==
    IF u.op = "updateUserTask"
    THEN updateUserTask(tbl, u.userId, u.taskId, u.body, u.t, storeOk)
    ELSE updateUserSettings(tbl, u.userId, u.body, u.t, storeOk)

\* Bodies of the concurrent updates: one that is not JSON, and bodies that
\* set the same attribute to different values and different attributes.
ConcurrentTaskBodies ==
    { BadJson,
      Json([taskTitle |-> "B"]),
      Json([taskTitle |-> "C", taskCompleted |-> TRUE]) }

ConcurrentSettingsBodies ==
    { Json([sortMode |-> "date"]),
      Json([sortMode |-> "name", createdAt |-> 99]) }

\* Up to the await of docClient.update: the event is read, the body parsed,
\* Date.now() taken and params built (part_004:39-97, part_007:45-95).  A
\* request that fails validation, or whose body is not JSON, is answered
\* at once.
UpdatePrepare(i) ==
    /\ upd.of[i].pc = "idle"
    /\ \E op \in {"updateUserTask", "updateUserSettings"}, userId \in {"u1"},
          taskId \in {UnknownId} \cup TaskIdsInTable,
          body \in ConcurrentTaskBodies \cup ConcurrentSettingsBodies,
          t \in ClockReadings :
        /\ op = "updateUserTask" => body \in ConcurrentTaskBodies
        /\ op = "updateUserSettings" =>
              (body \in ConcurrentSettingsBodies /\ taskId = UnknownId)
        /\ OnePerEarlyReturn(userId, {taskId}, body, t, TRUE)
        /\ LET u == [pc |-> "write", op |-> op, userId |-> userId, taskId |-> taskId,
                     body |-> body, t |-> t, resp |-> Response(0, "running")]
               early == updateHandler(table, u, TRUE).resp
           IN upd' = [upd EXCEPT !.of[i] =
                        IF early.statusCode = 400 \/ early.threw
                        THEN [u EXCEPT !.pc = "done", !.resp = early]
                        ELSE u]
        /\ now' = t
    /\ UNCHANGED <<table, notConc>>

\* The await of docClient.update and the response (part_004:99-122,
\* part_007:97-121).
UpdateWrite(i) ==
    /\ upd.of[i].pc = "write"
    /\ \E storeOk \in BOOLEAN :
        LET out == updateHandler(table, upd.of[i], storeOk)
        IN /\ table' = out.table
           /\ upd' = [upd EXCEPT !.of[i].pc = "done", !.of[i].resp = out.resp]
    /\ UNCHANGED <<now, notConc>>

NextConc ==
    \/ \E i \in Invocations : UpdatePrepare(i)
    \/ \E i \in Invocations : UpdateWrite(i)

\* A user with settings and one task.
ConcTable ==
    (SettingsKey("u1") :> defaultUserSettings(0))
    @@ (TaskKey("u1", uuidv4(1)) :>
          [taskTitle |-> "A", taskCompleted |-> FALSE, createdAt |-> 0, updatedAt |-> 0])

\* The item an update invocation addresses, the attributes it sets and the
\* values it sets them to.
UpdKey(u) ==
    IF u.op = "updateUserTask" THEN TaskKey(u.userId, u.taskId) ELSE SettingsKey(u.userId)

UpdTargets(u) == DOMAIN u.body.obj \cup {"updatedAt"}

UpdValue(u, a) == IF a \in DOMAIN u.body.obj THEN u.body.obj[a] ELSE u.t

UpdWrote(u) == u.pc = "done" /\ u.resp.statusCode = 200

\* The item after the write of first and then the write of second.
SerialResult(old, first, second) ==
    [a \in DOMAIN old \cup UpdTargets(first) \cup UpdTargets(second) |->
        IF a \in UpdTargets(second) THEN UpdValue(second, a)
        ELSE IF a \in UpdTargets(first) THEN UpdValue(first, a)
        ELSE old[a]]

\* Invocations i and j, and no other, have updated the same item.
BothUpdated(i, j) ==
    /\ i # j
    /\ UpdWrote(upd.of[i])
    /\ UpdWrote(upd.of[j])
    /\ UpdKey(upd.of[i]) = UpdKey(upd.of[j])
    /\ \A k \in Invocations \ {i, j} :
          \/ upd.of[k].pc \in {"idle", "write"}
          \/ ~UpdWrote(upd.of[k])
          \/ UpdKey(upd.of[k]) # UpdKey(upd.of[i])

\* C21: when two concurrent updates of one item have both succeeded, the
\* stored item is the result of the two writes in one of the two orders:
\* the later write wins for an attribute both set, an attribute set by one
\* has that request's value, every other attribute has its old value.
C21_ConcurrentUpdatesSerial ==
    \A i, j \in Invocations :
        BothUpdated(i, j) =>
            LET key == UpdKey(upd.of[i])
                old == DdbGet(upd.base, key)
            IN \/ table[key] = SerialResult(old, upd.of[i], upd.of[j])
               \/ table[key] = SerialResult(old, upd.of[j], upd.of[i])

\* Two updates of the stored task that both set its title have succeeded,
\* the one stamped earlier having written last.
C21_Witness ==
    /\ BothUpdated(1, 2)
    /\ UpdKey(upd.of[1]) = TaskKey("u1", uuidv4(1))
    /\ upd.of[1].body = Json([taskTitle |-> "B"])
    /\ upd.of[2].body = Json([taskTitle |-> "C", taskCompleted |-> TRUE])
    /\ upd.of[1].t < upd.of[2].t
    /\ table[UpdKey(upd.of[1])].updatedAt = upd.of[1].t
    /\ table[UpdKey(upd.of[1])].taskTitle = "B"

(***************************************************************************)
(* Claims about the repository handlers                                    *)
(***************************************************************************)
UpdateOps == {"updateUserTask", "updateUserSettings", "updateTaskNotification"}

\* The step is an invocation of an update handler.
UpdateStep == reqNo' = reqNo + 1 /\ req'.op \in UpdateOps

\* The request passed the handler's validation of header, body and
\* parameters.
WellFormed(r) ==
    /\ r.userId # NoHeader
    /\ r.body.text = "json"
    /\ r.op \in {"updateUserTask", "updateTaskNotification"} => r.taskId # NoParam
    /\ r.op = "updateTaskNotification" => r.notificationId # NoParam

\* The item the request is about, under the key its create handler writes.
EntityKey(r) ==
    CASE r.op = "updateUserTask" -> TaskKey(r.userId, r.taskId)
      [] r.op = "updateUserSettings" -> SettingsKey(r.userId)
      [] r.op = "updateTaskNotification" ->
            NotificationKey(r.userId, r.taskId, r.notificationId)

\* C3: an update of Task, Settings or Notification that addresses an id
\* for which no item exists returns NotFound (no success response) and
\* leaves the table unchanged.
C3_UpdateMissingNoWrite ==
    [][ (UpdateStep /\ WellFormed(req') /\ ~Exists(table, EntityKey(req')))
        => (table' = table /\ resp'.statusCode # 200) ]_vars

\* The step is a successful update of an item that existed.
UpdatedExisting ==
    /\ UpdateStep
    /\ resp'.statusCode = 200
    /\ Exists(table, req'.key)
    /\ Exists(table', req'.key)

C10_CreatedAtUnchanged ==
    [][ (UpdatedExisting /\ Has(table[req'.key], "createdAt"))
        => (/\ Has(table'[req'.key], "createdAt")
            /\ table'[req'.key].createdAt = table[req'.key].createdAt) ]_vars

TaskModelAttributes ==
    {"taskTitle", "taskNotes", "taskDueDate", "taskCompleted", "categoryId",
     "createdAt", "updatedAt"}

MutableTaskFields == TaskModelAttributes \ {"createdAt", "updatedAt"}

\* The PATCH bodies the task page sends: one key each, for the category,
\* the completion mark, the due date, the title and the notes.
ClientTaskPatchBodies ==
    { b \in TaskPatchBodies :
        /\ b.text = "json"
        /\ Cardinality(DOMAIN b.obj) = 1
        /\ DOMAIN b.obj \subseteq
              {"categoryId", "taskCompleted", "newDueDate", "taskTitle", "taskNotes"} }

\* C26: when updateUserTask has applied a PATCH body the client sends to a
\* stored task, the body's keys are mutable fields of the Task model and
\* the stored task carries only attributes of the Task model.
C26_TasksCarryModelAttributes ==
    (/\ req.op = "updateUserTask"
     /\ req.body \in ClientTaskPatchBodies
     /\ resp.statusCode = 200
     /\ req.existed)
        => /\ DOMAIN req.body.obj \subseteq MutableTaskFields
           /\ DOMAIN table[req.key] \subseteq TaskModelAttributes

TaskAndNotificationOps ==
    {"createUserTask", "createTaskNotification", "deleteUserTask", "deleteTaskNotification"}

\* The notification items stored in a USER# partition without the task
\* their sort key names.
OrphanNotifications ==
    { k \in DOMAIN table :
        /\ k[1][1] = "USER#"
        /\ Len(k[2]) = 4
        /\ <<k[1], <<"TASK#", k[2][2]>> >> \notin DOMAIN table }

\* C28: after a createUserTask, createTaskNotification, deleteUserTask or
\* deleteTaskNotification on a table that held no notification, every
\* stored notification TASK#<t>NOTIFICATION#<n> has its task TASK#<t> in
\* the same partition.
C28_NotificationsNameStoredTask ==
    (reqNo = 1 /\ req.op \in TaskAndNotificationOps) => OrphanNotifications = {}

\* The notification items stored under the task the last createUserTask
\* created.
StoredNotificationsOfNewTask ==
    { k \in DOMAIN table :
        /\ k[1] = UserPk(req.userId)
        /\ Len(k[2]) = 4
        /\ k[2][2] = req.taskId }

CreateTaskSucceeded == req.op = "createUserTask" /\ resp.statusCode = 200

\* C29: the task in a success response of createUserTask has, for every
\* attribute that it and the stored task item both carry, the stored
\* value.
C29_ResponseAgreesWithStored ==
    (CreateTaskSucceeded /\ Exists(table, req.key)) =>
        \A a \in TaskModelAttributes \cap DOMAIN resp.task \cap DOMAIN table[req.key] :
            resp.task[a] = table[req.key][a]

\* The last request is a createUserTask whose selection map selects no
\* default, and no store call of it failed for a reason of the store's.
CreatedWithoutSelection ==
    /\ req.op = "createUserTask"
    /\ ~Falsy(req.userId)
    /\ req.body.text = "json"
    /\ Has(req.body.obj, "defaultNotifications")
    /\ SelectedKeys(req.body.obj.defaultNotifications) = << >>
    /\ req.storeOk

\* C30: createUserTask with a selection map that selects no default
\* stores the task, stores no notification for it and answers 200 with an
\* empty notification list.
C30_NoSelectionSucceeds ==
    CreatedWithoutSelection =>
        /\ Exists(table, req.key)
        /\ StoredNotificationsOfNewTask = {}
        /\ resp.statusCode = 200
        /\ resp.notifications = {}

\* C5: after a successful createUserTask the table holds, under the new
\* task, exactly one notification per key selected true, with that key's
\* number as reminderTimeBeforeDue, and none for a key selected false.
C5_OneNotificationPerSelectedKey ==
    CreateTaskSucceeded =>
        \A k \in DefaultNotificationKeys :
            Cardinality({ n \in StoredNotificationsOfNewTask :
                            table[n].reminderTimeBeforeDue = parseInt(k) })
              = IF IsSelected(req.body.obj.defaultNotifications, k) THEN 1 ELSE 0

\* C6: when createUserTask stored the task, the response reports success
\* (possibly partial) and every notification it lists as created is in the
\* table.
C6_PartialSuccessReported ==
    (req.op = "createUserTask" /\ Exists(table, req.key) /\ ~req.existed) =>
        /\ resp.statusCode = 200
        /\ \A n \in resp.notifications :
              Exists(table, NotificationKey(req.userId, n.taskId, n.notificationId))

DeleteOps == {"deleteUserTask", "deleteTaskNotification"}

\* The step is an invocation of a delete handler whose header and
\* parameters are all present.
DeleteStep ==
    /\ reqNo' = reqNo + 1
    /\ req'.op \in DeleteOps
    /\ req'.userId # NoHeader
    /\ req'.taskId # NoParam
    /\ req'.op = "deleteTaskNotification" => req'.notificationId # NoParam

\* C11: a delete of a task or notification that does not exist does not
\* answer with success and leaves the table unchanged.
C11_DeleteMissingNotFound ==
    [][ (DeleteStep /\ ~Exists(table, req'.key))
        => (table' = table /\ resp'.statusCode # 200) ]_vars

\* C12: every handler invocation ends with a structured response of status
\* 200, 400 or 500, never with an uncaught exception.
C12_AlwaysStructuredResponse ==
    reqNo > 0 => (~resp.threw /\ resp.statusCode \in {200, 400, 500})

\* The request lacks something its handler requires: the X-User-Id header,
\* the body (create and update handlers), the taskId parameter (task update
\* and delete, notification create, update and delete) or the
\* notificationId parameter (notification update and delete).
MissingRequired(r) ==
    \/ r.userId = NoHeader
    \/ /\ r.op \in {"createUserTask", "createTaskNotification", "createUserCategory",
                    "updateUserTask", "updateUserSettings", "updateTaskNotification"}
       /\ r.body.text = "absent"
    \/ /\ r.op \in {"updateUserTask", "deleteUserTask", "createTaskNotification",
                    "updateTaskNotification", "deleteTaskNotification"}
       /\ r.taskId = NoParam
    \/ /\ r.op \in {"updateTaskNotification", "deleteTaskNotification"}
       /\ r.notificationId = NoParam

\* C13: a request without the X-User-Id header, a required body or a
\* required query parameter is answered 400, and the handler issues no
\* store call and changes no item for it.
C13_MissingInput400NoStoreCall ==
    [][ (reqNo' = reqNo + 1 /\ MissingRequired(req'))
        => (resp'.statusCode = 400 /\ storeCalls' = 0 /\ table' = table) ]_vars

\* A request without a required parameter was answered.
C13_Witness ==
    /\ reqNo > 0
    /\ req.op = "deleteTaskNotification"
    /\ req.userId # NoHeader
    /\ req.taskId # NoParam
    /\ req.notificationId = NoParam
    /\ resp.statusCode = 400

\* The step is a successful initializeUser.
InitializeStep ==
    /\ reqNo' = reqNo + 1
    /\ req'.op = "initializeUser"
    /\ resp'.statusCode = 200

\* C14: initializeUser for a user without a Settings item stores the
\* default settings and returns them; an initializeUser that directly
\* follows it for the same user writes nothing and returns the same
\* settings, createdAt and updatedAt included.
C14_InitializeTwiceSameDefaults ==
    [][ /\ (InitializeStep /\ ~Exists(table, req'.key))
            => /\ table' = DdbPut(table, req'.key, defaultUserSettings(now'))
               /\ resp'.data.userSettings = defaultUserSettings(now')
        /\ (/\ InitializeStep
            /\ req.op = "initializeUser"
            /\ req.userId = req'.userId
            /\ resp.message = "User and settings created successfully")
            => /\ table' = table
               /\ resp'.data.userSettings = resp.data.userSettings ]_vars

\* The second of two initializeUser calls for a new user has answered.
C14_Witness ==
    /\ reqNo = 2
    /\ req.op = "initializeUser"
    /\ req.userId = "u2"
    /\ resp.message = "User data retrieved successfully"
    /\ resp.data.userSettings = table[SettingsKey("u2")]
    /\ Has(resp.data.userSettings, "twelveHour")

\* The identifiers under which the last response lists the user's
\* categories, tasks and notifications.
ListedIds ==
    [categories |-> { c.categoryId : c \in resp.data.userCategories },
     tasks |-> { x.taskId : x \in resp.data.userTasks },
     notifications |-> { <<n.taskId, n.notificationId>> : n \in resp.data.taskNotifications }]

\* The identifiers of the categories, tasks and notifications stored in a
\* user's partition.
StoredIds(userId) ==
    [categories |-> { k[2][2] : k \in Matching(table, userId, "CATEGORY#") },
     tasks |-> { k[2][2] : k \in { j \in Matching(table, userId, "TASK#") : Len(j[2]) = 2 } },
     notifications |->
        { <<k[2][2], k[2][4]>> : k \in { j \in Matching(table, userId, "TASK#") : Len(j[2]) = 4 } }]

\* C15: an initializeUser that answered with the data of an existing user
\* lists every category, task and notification of that user's partition
\* under its identifier.
C15_ListingComplete ==
    (req.op = "initializeUser" /\ resp.message = "User data retrieved successfully")
        => ListedIds = StoredIds(req.userId)

\* The stored Settings items that initializeUser created (they carry all
\* default fields) and that hold a defaultNotifications map.
StoredSettings ==
    { k \in DOMAIN table :
        /\ k[2] = <<"SETTINGS#">>
        /\ Has(table[k], "twelveHour")
        /\ Has(table[k], "defaultNotifications") }

\* C16: the defaultNotifications map of every stored Settings item has
\* exactly the keys 5, 15, 30, 45 and 60.
C16_FiveNotificationKeys ==
    \A k \in StoredSettings : DOMAIN table[k].defaultNotifications = DefaultNotificationKeys

\* The four entity forms of a sort key.
EntityForm(sk) ==
    \/ sk = <<"SETTINGS#">>
    \/ Len(sk) = 2 /\ sk[1] \in {"CATEGORY#", "TASK#"}
    \/ Len(sk) = 4 /\ sk[1] = "TASK#" /\ sk[3] = "NOTIFICATION#"

\* C17: every stored item has partition key USER#<userId> and a sort key of
\* one of the four entity forms.
C17_CanonicalKeys ==
    \A k \in DOMAIN table : Len(k[1]) = 2 /\ k[1][1] = "USER#" /\ EntityForm(k[2])

(***************************************************************************)
(* Claims about authorization                                              *)
(***************************************************************************)
LambdaRan == authOutcome \in {"Allow", "Deny", "Unauthorized"}

HeadersPresent == authEvent.Authorization # NoAuthHeader /\ ~Falsy(authEvent.XUserId)

\* The request's token verified in this run and its subject is the
\* request's X-User-Id value.
VerifiedOwner ==
    /\ HeadersPresent
    /\ authDecoded.ok
    /\ authDecoded.sub = authEvent.XUserId

\* C1 (as stated): the authorizer's outcome is the Allow policy iff the
\* token verified and its subject equals X-User-Id, and the Deny policy in
\* every other case, a missing header included.
C1_AllowElseDenyPolicy ==
    LambdaRan =>
        /\ authOutcome = "Allow" <=> VerifiedOwner
        /\ ~VerifiedOwner => authOutcome = "Deny"

\* C1 (amended): the outcome is the Allow policy iff the token verified and
\* its subject equals X-User-Id; with both headers present every other case
\* gives the Deny policy; with the Authorization or the X-User-Id header
\* missing the handler returns no policy and throws "Unauthorized".
C1_AllowDenyOrThrow ==
    LambdaRan =>
        /\ authOutcome = "Allow" <=> VerifiedOwner
        /\ authOutcome = "Deny" <=> (HeadersPresent /\ ~VerifiedOwner)
        /\ authOutcome = "Unauthorized" <=> ~HeadersPresent

\* A token verified, but it names another user than X-User-Id: Deny.
C1_Witness ==
    /\ authOutcome = "Deny"
    /\ authDecoded.ok
    /\ authDecoded.sub # authEvent.XUserId

\* C2: every request that reaches a repository handler carries a token
\* signed by the identity provider whose subject is that same request's
\* X-User-Id value, whatever the gateway cached for earlier requests.
C2_OwnershipPerRequest ==
    gwResult = "HandlerInvoked" =>
        /\ ~Falsy(authEvent.XUserId)
        /\ Len(BearerToken(authEvent.Authorization)) = 1
        /\ BearerToken(authEvent.Authorization)[1].signer \in Keys
        /\ BearerToken(authEvent.Authorization)[1].sub = authEvent.XUserId

\* C7: a correctly signed, unexpired token whose signing key is any member
\* of the key set the verifier fetched is accepted.
C7_AnyServedKeyAccepted ==
    (/\ LambdaRan
     /\ HeadersPresent
     /\ \E i \in 1..Len(authKeys) :
           jwtVerify(BearerToken(authEvent.Authorization), authKeys[i]))
    => authDecoded.ok

(***************************************************************************)
(* Specifications                                                          *)
(***************************************************************************)
InitAuth == AuthIdle /\ KeyIdle /\ StoreIdle /\ DeleteIdle /\ RaceIdle /\ ConcIdle /\ BatchIdle

SpecAuth == InitAuth /\ [][NextAuth]_vars

InitKey == KeyIdle /\ AuthIdle /\ StoreIdle /\ DeleteIdle /\ RaceIdle /\ ConcIdle /\ BatchIdle

SpecKey == InitKey /\ [][NextKey]_vars

\* The handlers start on an empty table, or on the table of a user who
\* has signed in once.
InitialTables == { << >>, SettingsKey("u1") :> defaultUserSettings(0) }

Init ==
    /\ AuthIdle /\ KeyIdle /\ DeleteIdle /\ RaceIdle /\ ConcIdle /\ BatchIdle
    /\ table \in InitialTables
    /\ now = 0
    /\ nextId = 1
    /\ reqNo = 0
    /\ req = [op |-> "none", userId |-> NoHeader, taskId |-> NoParam,
              notificationId |-> NoParam, body |-> NoBody, storeOk |-> TRUE,
              key |-> NoKey, existed |-> FALSE, complete |-> TRUE]
    /\ resp = Response(0, "none")
    /\ storeCalls = 0

Spec == Init /\ [][Next]_vars

\* deleteAccount is run on tables that hold a partition of each size.
InitDelete ==
    /\ AuthIdle /\ KeyIdle /\ DeleteIdle /\ RaceIdle /\ ConcIdle /\ BatchIdle
    /\ \E n \in PartitionSizes : table = TableOf(n)
    /\ now = 0
    /\ nextId = 1
    /\ reqNo = 0
    /\ req = [op |-> "none", userId |-> NoHeader, taskId |-> NoParam,
              notificationId |-> NoParam, body |-> NoBody, storeOk |-> TRUE,
              key |-> NoKey, existed |-> FALSE, complete |-> TRUE]
    /\ resp = Response(0, "none")
    /\ storeCalls = 0

SpecDelete == InitDelete /\ [][NextDelete]_vars

\* Concurrent initializeUser invocations and settings updates start from
\* the same tables as the other handlers.
SpecRace == Init /\ [][NextRace]_vars

\* Two update invocations run concurrently on the table of a user with
\* settings and one task.
InitConc ==
    /\ AuthIdle /\ KeyIdle /\ DeleteIdle /\ RaceIdle /\ BatchIdle
    /\ table = ConcTable
    /\ upd = NoUpdates(table)
    /\ now = 0
    /\ nextId = 2
    /\ reqNo = 0
    /\ req = [op |-> "none", userId |-> NoHeader, taskId |-> NoParam,
              notificationId |-> NoParam, body |-> NoBody, storeOk |-> TRUE,
              key |-> NoKey, existed |-> FALSE, complete |-> TRUE]
    /\ resp = Response(0, "none")
    /\ storeCalls = 0

SpecConc == InitConc /\ [][NextConc]_vars

\* The repository handlers and deleteAccount, invoked in any order.
SpecTenants == Init /\ [][NextTenants]_vars

\* deleteAccount, one step per store request, on the partitions of
\* SpecDelete.
InitBatch ==
    /\ AuthIdle /\ KeyIdle /\ DeleteIdle /\ RaceIdle /\ ConcIdle /\ BatchIdle
    /\ \E n \in PartitionSizes : table = TableOf(n)
    /\ now = 0
    /\ nextId = 1
    /\ reqNo = 0
    /\ req = [op |-> "none", userId |-> NoHeader, taskId |-> NoParam,
              notificationId |-> NoParam, body |-> NoBody, storeOk |-> TRUE,
              key |-> NoKey, existed |-> FALSE, complete |-> TRUE]
    /\ resp = Response(0, "none")
    /\ storeCalls = 0

SpecBatch == InitBatch /\ [][NextBatch]_vars

\* The store answers every request it is sent, and the Lambda runtime runs
\* the handler on.
SpecBatchLive == SpecBatch /\ WF_vars(NextBatch)

====
